---- MODULE Spec2Model ----
(***************************************************************************)
(* Model of smart-assets-backend: processVideo.py (the frame pipeline      *)
(* script) and YOLO_Pred.py (decode / suppress / annotate).                *)
(*                                                                         *)
(* Strings are sequences of one-character strings.  Scores, confidences    *)
(* and thresholds are integers in percent (0.4 is 40).  A frame is a       *)
(* record holding what the opaque detector returns for it (tensor) and     *)
(* the annotations drawn on it so far (drawn).                             *)
(***************************************************************************)
EXTENDS Integers, Sequences, FiniteSets, TLC

\* ------------------------------------------------------------------ bounds
\* Largest frame_count the probe reports, besides the 100 of scenario A.
MaxFrameCount == 6
\* Frames a file source may deliver beyond max(frame_count, 0).
MaxExtra == 2
\* Failed reads of a live run.
MaxFailedReads == 3

\* --------------------------------------------------------------- strings
RECURSIVE RFind(_, _)
\* str.rfind of a single character, 1-based, 0 when absent
RFind(s, c) ==
    IF s = <<>> THEN 0
    ELSE IF s[Len(s)] = c THEN Len(s)
    ELSE RFind(SubSeq(s, 1, Len(s) - 1), c)

LowerChar(c) ==
    CASE c = "W" -> "w"
      [] c = "E" -> "e"
      [] c = "B" -> "b"
      [] c = "M" -> "m"
      [] c = "L" -> "l"
      [] c = "I" -> "i"
      [] c = "V" -> "v"
      [] c = "A" -> "a"
      [] OTHER   -> c

\* str.lower
Lower(s) == [i \in 1..Len(s) |-> LowerChar(s[i])]

\* s[i..] starts with old
StartsAt(s, i, old) ==
    /\ i + Len(old) - 1 <= Len(s)
    /\ \A k \in 1..Len(old) : s[i + k - 1] = old[k]

RECURSIVE ReplaceFrom(_, _, _, _)
ReplaceFrom(s, i, old, new) ==
    IF i > Len(s) THEN <<>>
    ELSE IF StartsAt(s, i, old)
         THEN new \o ReplaceFrom(s, i + Len(old), old, new)
         ELSE <<s[i]>> \o ReplaceFrom(s, i + 1, old, new)

RECURSIVE Interleave(_, _, _)
Interleave(s, i, new) ==
    IF i > Len(s) THEN new
    ELSE new \o <<s[i]>> \o Interleave(s, i + 1, new)

\* str.replace(old, new): every non-overlapping occurrence, left to right;
\* an empty old matches before every character and at the end
Replace(s, old, new) ==
    IF old = <<>> THEN Interleave(s, 1, new) ELSE ReplaceFrom(s, 1, old, new)

\* os.path.splitext(p)[1]: from the last dot of the last path component,
\* unless that component has only dots before it
SplitextExt(p) ==
    LET sepIndex == RFind(p, "/")
        dotIndex == RFind(p, ".")
    IN  IF /\ dotIndex > sepIndex
           /\ \E k \in (sepIndex + 1)..(dotIndex - 1) : p[k] # "."
        THEN SubSeq(p, dotIndex, Len(p))
        ELSE <<>>

\* os.path.basename
Basename(p) == SubSeq(p, RFind(p, "/") + 1, Len(p))

\* os.path.dirname
Dirname(p) ==
    LET i == RFind(p, "/")
    IN  IF i = 0 THEN <<>> ELSE IF i = 1 THEN <<"/">> ELSE SubSeq(p, 1, i - 1)

\* os.path.join(a, b) for a relative b
PathJoin(a, b) ==
    IF a = <<>> \/ a[Len(a)] = "/" THEN a \o b ELSE a \o <<"/">> \o b

get_format_by_extension(file_path) ==
    LET ext == SplitextExt(file_path)
    IN  IF ext # <<>> THEN Replace(Lower(ext), <<".">>, <<>>)
        ELSE <<"u", "n", "k", "n", "o", "w", "n">>

\* ------------------------------------------------------------- YOLO_Pred
\* int(): truncation toward zero of a / b, b > 0
TruncDiv(a, b) == IF a >= 0 THEN a \div b ELSE -((-a) \div b)

RECURSIVE SeqMax(_)
SeqMax(s) ==
    IF Len(s) = 1 THEN s[1]
    ELSE LET m == SeqMax(Tail(s)) IN IF s[1] >= m THEN s[1] ELSE m

\* ndarray.argmax: the first position of the maximum, 0-based
ArgMax(s) == (CHOOSE i \in 1..Len(s) :
                 /\ s[i] = SeqMax(s)
                 /\ \A j \in 1..(i - 1) : s[j] # SeqMax(s)) - 1

\* np.random.seed(10); np.random.randint(100, 255, size=(nc, 3)): a fixed
\* stream of values in 100..254 filled row by row (the generator itself is
\* numpy's; only "same seed, same stream" is modelled)
SeededRandint(k) == 100 + ((k * 37 + 11) % 155)

Palette(nc) ==
    [i \in 1..nc |-> <<SeededRandint(3 * (i - 1)), SeededRandint(3 * (i - 1) + 1),
                       SeededRandint(3 * (i - 1) + 2)>>]

INPUT_WH_YOLO == 640

\* The state YOLO_Pred.__init__ leaves: labels, nc, thresholds, palette.
\* yaml is the parsed descriptor; conf_thresh, class_thresh the defaults.
YOLO_Init(yaml) ==
    [labels       |-> yaml.names,
     nc           |-> yaml.nc,
     conf_thresh  |-> 40,
     class_thresh |-> 25,
     colors       |-> Palette(yaml.nc)]

\* One row of the decode loop: the two gates, then the box in pixel space.
\* max_rc is the side of the padded square.  A row without class scores
\* makes row[5:].max() raise.
RowRaises(self, row) == row.conf > self.conf_thresh /\ row.scores = <<>>

\* the gates with >= in place of >
RowKeptInclusive(self, row) ==
    /\ row.conf >= self.conf_thresh
    /\ row.scores # <<>>
    /\ SeqMax(row.scores) >= self.class_thresh

RowKept(self, row) ==
    /\ row.conf > self.conf_thresh
    /\ row.scores # <<>>
    /\ SeqMax(row.scores) > self.class_thresh

RowBox(row, max_rc) ==
    <<TruncDiv((2 * row.cx - row.w) * max_rc, 2 * INPUT_WH_YOLO),
      TruncDiv((2 * row.cy - row.h) * max_rc, 2 * INPUT_WH_YOLO),
      TruncDiv(row.w * max_rc, INPUT_WH_YOLO),
      TruncDiv(row.h * max_rc, INPUT_WH_YOLO)>>

RECURSIVE DecodeFrom(_, _, _, _, _)
\* rows i.. of the tensor appended to acc; err when a row raises
DecodeFrom(self, detections, i, max_rc, acc) ==
    IF i > Len(detections) THEN acc
    ELSE LET row == detections[i]
         IN  IF RowRaises(self, row) THEN [acc EXCEPT !.err = TRUE]
             ELSE IF RowKept(self, row)
                  THEN DecodeFrom(self, detections, i + 1, max_rc,
                         [err         |-> FALSE,
                          boxes       |-> Append(acc.boxes, RowBox(row, max_rc)),
                          confidences |-> Append(acc.confidences, row.conf),
                          classes     |-> Append(acc.classes, ArgMax(row.scores))])
                  ELSE DecodeFrom(self, detections, i + 1, max_rc, acc)

RECURSIVE DecodeMisalignedFrom(_, _, _, _, _)
\* a decode loop that appends the confidence at the objectness gate
DecodeMisalignedFrom(self, detections, i, max_rc, acc) ==
    IF i > Len(detections) THEN acc
    ELSE LET row == detections[i]
         IN  IF RowRaises(self, row) THEN [acc EXCEPT !.err = TRUE]
             ELSE IF row.conf > self.conf_thresh
                  THEN DecodeMisalignedFrom(self, detections, i + 1, max_rc,
                         IF RowKept(self, row)
                         THEN [err         |-> FALSE,
                               boxes       |-> Append(acc.boxes, RowBox(row, max_rc)),
                               confidences |-> Append(acc.confidences, row.conf),
                               classes     |-> Append(acc.classes, ArgMax(row.scores))]
                         ELSE [acc EXCEPT !.confidences = Append(@, row.conf)])
                  ELSE DecodeMisalignedFrom(self, detections, i + 1, max_rc, acc)

DecodeMisaligned(self, detections, max_rc) ==
    DecodeMisalignedFrom(self, detections, 1, max_rc,
               [err |-> FALSE, boxes |-> <<>>, confidences |-> <<>>, classes |-> <<>>])

Decode(self, detections, max_rc) ==
    DecodeFrom(self, detections, 1, max_rc,
               [err |-> FALSE, boxes |-> <<>>, confidences |-> <<>>, classes |-> <<>>])

\* cv2.dnn.NMSBoxes(boxes, confidences, 0.25, 0.45)
NMS_SCORE_THRESHOLD == 25
NMS_IOU_THRESHOLD == 45

Max2(a, b) == IF a >= b THEN a ELSE b
Min2(a, b) == IF a <= b THEN a ELSE b

Area(b) == b[3] * b[4]

InterArea(a, b) ==
    LET w == Min2(a[1] + a[3], b[1] + b[3]) - Max2(a[1], b[1])
        h == Min2(a[2] + a[4], b[2] + b[4]) - Max2(a[2], b[2])
    IN  IF w > 0 /\ h > 0 THEN w * h ELSE 0

\* suppression that only sets in above the overlap of scenario B
OverlapExceedsLax(a, b) ==
    LET inter == InterArea(a, b)
        union == Area(a) + Area(b) - inter
    IN  IF Area(a) + Area(b) <= 0 THEN TRUE
        ELSE inter * 10 > 7 * union

\* overlap (1 - Jaccard distance) > nms_threshold, in integers.  OpenCV keeps
\* a candidate when overlap <= nms_threshold; for an IoU of exactly 9/20 its
\* float arithmetic yields the float 0.45 itself, so such a pair is kept.
OverlapExceeds(a, b) ==
    LET inter == InterArea(a, b)
        union == Area(a) + Area(b) - inter
    IN  IF Area(a) + Area(b) <= 0 THEN TRUE
        ELSE inter * 100 > NMS_IOU_THRESHOLD * union

RECURSIVE SortDesc(_, _)
\* stable sort of the candidate indices by confidence, descending
SortDesc(cands, confidences) ==
    IF cands = {} THEN <<>>
    ELSE LET best == CHOOSE i \in cands :
                        \A j \in cands :
                            \/ confidences[i] > confidences[j]
                            \/ (confidences[i] = confidences[j] /\ i <= j)
         IN  <<best>> \o SortDesc(cands \ {best}, confidences)

RECURSIVE NMSKeep(_, _, _, _)
NMSKeep(order, k, boxes, kept) ==
    IF k > Len(order) THEN kept
    ELSE LET idx == order[k]
             keep == \A j \in 1..Len(kept) : ~OverlapExceeds(boxes[idx], boxes[kept[j]])
         IN  NMSKeep(order, k + 1, boxes, IF keep THEN Append(kept, idx) ELSE kept)

\* The surviving indices (1-based positions in boxes), best score first.
NMSBoxes(boxes, confidences) ==
    NMSKeep(SortDesc({i \in 1..Len(boxes) : confidences[i] > NMS_SCORE_THRESHOLD},
                     confidences),
            1, boxes, <<>>)

\* The draw loop raises at a surviving index whose class id has no label or
\* no palette row.
DrawRaises(self, classes_id) ==
    classes_id >= Len(self.labels) \/ classes_id >= Len(self.colors)

Annotation(self, bs, ind) ==
    [box   |-> bs.boxes[ind],
     text  |-> <<self.labels[bs.classes[ind] + 1], bs.confidences[ind]>>,
     color |-> self.colors[bs.classes[ind] + 1]]

RECURSIVE DrawFrom(_, _, _, _, _)
\* cv2.rectangle / putText draw on the image itself; a raise ends the loop
\* and leaves what was drawn
DrawFrom(self, image, bs, index, k) ==
    IF k > Len(index) THEN image
    ELSE IF DrawRaises(self, bs.classes[index[k]]) THEN image
    ELSE DrawFrom(self, [image EXCEPT !.drawn = Append(@, Annotation(self, bs, index[k]))],
                  bs, index, k + 1)

MaxRC(image) == Max2(image.shape[1], image.shape[2])

\* Whether the try block of predictions raises on this image.
PredictionsRaises(self, image) ==
    \/ ~image.forward_ok
    \/ LET bs == Decode(self, image.tensor, MaxRC(image))
       IN  \/ bs.err
           \/ \E k \in 1..Len(NMSBoxes(bs.boxes, bs.confidences)) :
                 DrawRaises(self, bs.classes[NMSBoxes(bs.boxes, bs.confidences)[k]])

\* predictions as its caller expects it: None when the try block raised
predictions_none_on_error(self, image) ==
    IF ~image.forward_ok
    THEN [id |-> 0, shape |-> <<0, 0, 0>>, tensor |-> <<>>, forward_ok |-> FALSE,
          drawn |-> <<>>]
    ELSE LET bs == Decode(self, image.tensor, MaxRC(image))
         IN  IF bs.err \/ \E k \in 1..Len(NMSBoxes(bs.boxes, bs.confidences)) :
                            DrawRaises(self, bs.classes[NMSBoxes(bs.boxes, bs.confidences)[k]])
             THEN [id |-> 0, shape |-> <<0, 0, 0>>, tensor |-> <<>>, forward_ok |-> FALSE,
                   drawn |-> <<>>]
             ELSE DrawFrom(self, image, bs, NMSBoxes(bs.boxes, bs.confidences), 1)

\* YOLO_Pred.predictions: both return statements return the image object
\* that was passed in, with whatever was drawn on it.
predictions(self, image) ==
    IF ~image.forward_ok THEN image
    ELSE LET bs == Decode(self, image.tensor, MaxRC(image))
         IN  IF bs.err THEN image
             ELSE DrawFrom(self, image, bs, NMSBoxes(bs.boxes, bs.confidences), 1)

\* ---------------------------------------------------------- processVideo
VARIABLES
    pc,                     \* position of the script
    argv1,                  \* sys.argv[1]
    input_source,
    is_live_stream,
    stdout,                 \* the lines printed so far
    exit_status,            \* -1 while the process runs
    yolo_model,
    cap,                    \* "none", "failed", "open", "released"
    cap_source,             \* what cv2.VideoCapture was given
    out,                    \* "none", "open", "released"
    frame_count,
    output_video_path,
    frame_num,
    last_reported_progress,
    frame,                  \* the frame object of the current iteration
    frame_as_read,          \* copy of the frame as cap.read() returned it
    nread,                  \* successful reads
    failed_reads,           \* failed reads of a live run (at most MaxFailedReads)
    written,                \* frames written to the sink
    last_written,           \* the last frame written
    exc,                    \* exception in flight: "none", "Exception", "KeyboardInterrupt"
    cause,                  \* what went wrong in the environment, "none" if nothing
    detections_seen,        \* some frame read so far had a qualifying detection or made predictions raise
    call                    \* the last call made on the objects directly: operation, arguments, result

vars == <<pc, argv1, input_source, is_live_stream, stdout, exit_status, yolo_model,
          cap, cap_source, out, frame_count, output_video_path, frame_num,
          last_reported_progress, frame, frame_as_read, nread, failed_reads,
          written, last_written, exc, cause, detections_seen, call>>

\* --- stdout lines: a printed json object with its keys, or a raw line
ProgressLine(p, m) ==
    [json |-> TRUE, keys |-> {"progress", "message"}, progress |-> p, message |-> m,
     output_video |-> <<>>]
MessageLine(m) ==
    [json |-> TRUE, keys |-> {"message"}, progress |-> 0, message |-> m,
     output_video |-> <<>>]
OutputLine(path) ==
    [json |-> TRUE, keys |-> {"output_video"}, progress |-> 0, message |-> "",
     output_video |-> path]
RawLine(m) ==
    [json |-> FALSE, keys |-> {}, progress |-> 0, message |-> m, output_video |-> <<>>]

\* --- inputs of a run
LivePath == <<"l", "i", "v", "e">>
DotWebm == <<".", "w", "e", "b", "m">>
DotMp4 == <<".", "m", "p", "4">>
Webm == <<"w", "e", "b", "m">>

Inputs ==
    { LivePath,
      <<"a">> \o DotMp4,
      <<"a", ".", "W", "E", "B", "M">>,
      <<"w">> \o DotWebm \o <<"/", "a">> \o DotWebm }

\* What the file system and ffmpeg answer during the conversion.
ConvertEnvs ==
    [isfile : BOOLEAN, dir_exists : BOOLEAN, makedirs_ok : BOOLEAN,
     ffmpeg : {"ok", "CalledProcessError", "FileNotFoundError", "Exception"}]

\* convert_webm_to_mp4: what it returns (ok = truthy) and what it prints
convert_webm_to_mp4(input_path, output_path, env) ==
    LET output_dir == Dirname(output_path)
        mkdir == output_dir # <<>> /\ ~env.dir_exists
        created == IF mkdir THEN <<MessageLine("Created output directory")>> ELSE <<>>
        converting == <<MessageLine("Converting WebM to MP4...")>>
    IN  IF ~env.isfile
        THEN [ok |-> FALSE, value |-> <<>>,
              lines |-> <<MessageLine("Error: Input file not found.")>>]
        ELSE IF mkdir /\ ~env.makedirs_ok
        THEN [ok |-> FALSE, value |-> <<>>,
              lines |-> <<MessageLine("Error creating output directory")>>]
        ELSE IF env.ffmpeg = "ok"
        THEN [ok |-> TRUE, value |-> output_path,
              lines |-> created \o converting
                        \o <<MessageLine("Conversion completed successfully.")>>]
        ELSE IF env.ffmpeg = "CalledProcessError"
        THEN [ok |-> FALSE, value |-> <<>>,
              lines |-> created \o converting
                        \o <<MessageLine("Error converting WebM to MP4"),
                             RawLine("e.stderr")>>]
        ELSE IF env.ffmpeg = "FileNotFoundError"
        THEN [ok |-> FALSE, value |-> <<>>,
              lines |-> created \o converting
                        \o <<MessageLine("Error: FFmpeg not found. Please install FFmpeg.")>>]
        ELSE [ok |-> FALSE, value |-> <<>>,
              lines |-> created \o converting
                        \o <<MessageLine("An error occurred during conversion")>>]

NoFrame ==
    [id |-> 0, shape |-> <<0, 0, 0>>, tensor |-> <<>>, forward_ok |-> FALSE, drawn |-> <<>>]

\* No call made yet.
NoCall == [op |-> "none"]

NoModel ==
    [labels |-> <<>>, nc |-> 0, conf_thresh |-> 0, class_thresh |-> 0, colors |-> <<>>]

Init ==
    /\ pc = "start"
    /\ argv1 \in Inputs
    /\ input_source = argv1
    /\ is_live_stream = (Lower(argv1) = LivePath)
    /\ stdout = <<>>
    /\ exit_status = -1
    /\ yolo_model = NoModel
    /\ cap = "none"
    /\ cap_source = <<>>
    /\ out = "none"
    /\ frame_count = 0
    /\ output_video_path = <<>>
    /\ frame_num = 0
    /\ last_reported_progress = 0
    /\ frame = NoFrame
    /\ frame_as_read = NoFrame
    /\ nread = 0
    /\ failed_reads = 0
    /\ written = 0
    /\ last_written = NoFrame
    /\ exc = "none"
    /\ cause = "none"
    /\ detections_seen = FALSE
    /\ call = NoCall

\* sys.exit(status), or the interpreter ending on an uncaught exception
Exit(status) ==
    /\ pc' = "exited"
    /\ exit_status' = status

TranscodeFailureNoProgress ==
    MessageLine("Error converting WebM to MP4. Please check the input file.")

\* lines 115-129: the webm branch
TranscodeFailure == ProgressLine(100, "Error converting WebM to MP4. Please check the input file.")

Transcode ==
    /\ pc = "start"
    /\ IF get_format_by_extension(input_source) = Webm
       THEN \E env \in ConvertEnvs :
              LET mp4_output == convert_webm_to_mp4(input_source,
                                    Replace(input_source, DotWebm, DotMp4), env)
              IN  IF mp4_output.ok
                  THEN /\ input_source' = mp4_output.value
                       /\ stdout' = stdout \o mp4_output.lines
                       /\ pc' = "load_model"
                       /\ UNCHANGED <<exit_status, cause>>
                  ELSE /\ stdout' = stdout \o mp4_output.lines \o <<TranscodeFailure>>
                       /\ Exit(1)
                       /\ cause' = "transcode"
                       /\ UNCHANGED input_source
       ELSE /\ pc' = "load_model"
            /\ UNCHANGED <<input_source, stdout, exit_status, cause>>
    /\ UNCHANGED <<call, argv1, is_live_stream, yolo_model, cap, cap_source, out, frame_count,
                   output_video_path, frame_num, last_reported_progress, frame,
                   frame_as_read, nread, failed_reads, written, last_written, exc,
                   detections_seen>>

\* What models/data.yaml may hold: names and nc agree, or names is shorter.
Yamls ==
    { [names |-> <<"crack", "rust", "leak">>, nc |-> 3],
      [names |-> <<"crack", "rust">>, nc |-> 3] }

ModelFailure == ProgressLine(100, "Error initializing YOLO model")

\* lines 131-147: os.makedirs (an error there is not caught), then the
\* model is built; any exception of YOLO_Pred(...) is reported and ends the run
LoadModel ==
    /\ pc = "load_model"
    /\ \/ /\ Exit(1)                         \* os.makedirs raises
          /\ cause' = "makedirs"
          /\ UNCHANGED <<yolo_model, stdout>>
       \/ /\ stdout' = Append(stdout, ModelFailure)   \* YOLO_Pred(...) raises
          /\ Exit(1)
          /\ cause' = "model"
          /\ UNCHANGED yolo_model
       \/ \E yaml \in Yamls :
             /\ yolo_model' = YOLO_Init(yaml)
             /\ pc' = "open"
             /\ UNCHANGED <<stdout, exit_status, cause>>
    /\ UNCHANGED <<call, argv1, input_source, is_live_stream, cap, cap_source, out, frame_count,
                   output_video_path, frame_num, last_reported_progress, frame,
                   frame_as_read, nread, failed_reads, written, last_written, exc,
                   detections_seen>>

Camera0 == <<"0">>

OpenFailure == ProgressLine(100, "Error: Unable to open video source. Please check the input.")

\* lines 150-159
OpenSource ==
    /\ pc = "open"
    /\ cap_source' = IF is_live_stream THEN Camera0 ELSE input_source
    /\ \/ /\ cap' = "open"
          /\ pc' = "probe"
          /\ UNCHANGED <<stdout, exit_status, cause>>
       \/ /\ cap' = "failed"                      \* not cap.isOpened()
          /\ stdout' = Append(stdout, OpenFailure)
          /\ Exit(1)
          /\ cause' = "open"
    /\ UNCHANGED <<call, argv1, input_source, is_live_stream, yolo_model, out, frame_count,
                   output_video_path, frame_num, last_reported_progress, frame,
                   frame_as_read, nread, failed_reads, written, last_written, exc,
                   detections_seen>>

\* What the probe may report: small counts, the 100 of scenario A, and 10
\* for a stream that holds more than twice the frames its header announces.
FrameCounts == (-1..MaxFrameCount) \cup {10, 100}

OutputDir == <<"v", "i", "d", "e", "o", "s">>
OutputSuffix == <<"-", "o", "u", "t", "p", "u", "t">>

\* lines 173-175
OutputVideoPath(source) ==
    LET file_extension == SplitextExt(source)
    IN  PathJoin(OutputDir,
                 Replace(Basename(source), file_extension, OutputSuffix \o file_extension))

\* lines 161-180: probe the source, name and create the sink, zero the
\* counters.  None of this is inside the try block: an exception here
\* (int() of a NaN frame rate, a failing VideoWriter) ends the process.
ProbeSource ==
    /\ pc = "probe"
    /\ \/ /\ Exit(1)
          /\ cause' = "probe"
          /\ UNCHANGED <<frame_count, output_video_path, out, frame_num,
                         last_reported_progress>>
       \/ /\ frame_count' \in (IF is_live_stream THEN {-1} ELSE FrameCounts)
          /\ output_video_path' = OutputVideoPath(input_source)
          /\ out' = "open"
          /\ frame_num' = 0
          /\ last_reported_progress' = 0
          /\ pc' = "read"
          /\ UNCHANGED <<exit_status, cause>>
    /\ UNCHANGED <<call, argv1, input_source, is_live_stream, stdout, yolo_model, cap, cap_source,
                   frame, frame_as_read, nread, failed_reads, written, last_written, exc,
                   detections_seen>>

\* --- what the source delivers
Row(cx, cy, w, h, conf, scores) ==
    [cx |-> cx, cy |-> cy, w |-> w, h |-> h, conf |-> conf, scores |-> scores]

Tensors ==
    { <<>>,
      \* a row at the objectness threshold and a row at the class threshold
      <<Row(100, 100, 40, 40, 40, <<99, 10, 5>>), Row(300, 300, 40, 40, 80, <<25, 20, 10>>)>>,
      \* two boxes of one class with IoU 0.7, the weaker one first
      <<Row(215, 100, 170, 100, 60, <<10, 80, 5>>), Row(185, 100, 170, 100, 90, <<10, 85, 5>>)>>,
      \* two disjoint boxes, the weaker one of class 2
      <<Row(400, 400, 40, 40, 60, <<5, 10, 80>>), Row(100, 100, 40, 40, 90, <<80, 10, 5>>)>>,
      \* a detection followed by a row without class scores
      <<Row(100, 100, 40, 40, 90, <<80, 10, 5>>), Row(300, 300, 40, 40, 90, <<>>)>> }

FrameShape == <<720, 1280, 3>>

\* The frames cap.read() may return as frame number id.
Frames(id) ==
    { [id |-> id, shape |-> FrameShape, tensor |-> t, forward_ok |-> TRUE,
       drawn |-> <<>>] : t \in Tensors }
    \cup { [id |-> id, shape |-> FrameShape, tensor |-> <<>>, forward_ok |-> FALSE,
            drawn |-> <<>>] }

\* The frame raises in predictions or decodes to a non-empty BoxSet.
HasDetections(self, image) ==
    \/ PredictionsRaises(self, image)
    \/ Decode(self, image.tensor, MaxRC(image)).boxes # <<>>

\* How many frames the source may deliver in this run.
SourceLimit ==
    IF frame_count = 10 THEN 23 + MaxExtra ELSE Max2(frame_count, 0) + MaxExtra

AfterFailedReadAlwaysBreaks(live) == "finally"

\* lines 185-188: a file run leaves the loop (break) and falls into the
\* finally clause, a live run reads again (continue)
AfterFailedRead(live) == IF ~live THEN "finally" ELSE "read"

\* lines 184-188: ret, frame = cap.read() and the two ways of a failed read
ReadFrame ==
    /\ pc = "read"
    /\ \/ /\ nread < SourceLimit
          /\ frame' \in Frames(nread + 1)
          /\ frame_as_read' = frame'
          /\ nread' = nread + 1
          /\ detections_seen' = (detections_seen \/ HasDetections(yolo_model, frame'))
          /\ pc' = "predict"
          /\ UNCHANGED failed_reads
       \/ /\ is_live_stream => failed_reads < MaxFailedReads
          /\ frame' = NoFrame
          /\ pc' = AfterFailedRead(is_live_stream)
          /\ failed_reads' = IF is_live_stream THEN failed_reads + 1 ELSE failed_reads
          /\ UNCHANGED <<frame_as_read, nread, detections_seen>>
    /\ UNCHANGED <<call, argv1, input_source, is_live_stream, stdout, exit_status, yolo_model, cap,
                   cap_source, out, frame_count, output_video_path, frame_num,
                   last_reported_progress, written, last_written, exc, cause>>

FrameError == ProgressLine(100, "Error processing frame. Skipping.")

\* lines 191-200: predictions draws on the frame object and returns it, so
\* frame and processed_frame are one object afterwards
Predict ==
    /\ pc = "predict"
    /\ LET processed_frame == predictions(yolo_model, frame)
       IN  /\ frame' = processed_frame
           /\ IF processed_frame = NoFrame
              THEN /\ stdout' = Append(stdout, FrameError)
                   /\ pc' = "read"
              ELSE /\ pc' = "write"
                   /\ UNCHANGED stdout
    /\ UNCHANGED <<call, argv1, input_source, is_live_stream, exit_status, yolo_model, cap,
                   cap_source, out, frame_count, output_video_path, frame_num,
                   last_reported_progress, frame_as_read, nread, failed_reads, written,
                   last_written, exc, cause, detections_seen>>

\* (frame_num, frame_count) for which the double (frame_num / frame_count) * 100
\* lands just below the exact integer quotient (frame_count in 1..15 or 100,
\* frame_num below 140)
FloatShort ==
    { <<23, 5>>, <<41, 5>>, <<46, 5>>, <<51, 5>>, <<82, 5>>, <<87, 5>>, <<92, 5>>,
      <<97, 5>>, <<102, 5>>, <<23, 10>>, <<41, 10>>, <<46, 10>>, <<51, 10>>, <<82, 10>>,
      <<87, 10>>, <<92, 10>>, <<97, 10>>, <<102, 10>>, <<69, 15>>, <<123, 15>>,
      <<138, 15>>, <<29, 100>>, <<57, 100>>, <<58, 100>>, <<113, 100>>, <<114, 100>>,
      <<115, 100>>, <<116, 100>> }

\* line 208: int((frame_num / frame_count) * 100)
Progress(n, total) ==
    IF <<n, total>> \in FloatShort THEN ((n * 100) \div total) - 1
    ELSE (n * 100) \div total

ShouldReportAnyChange(progress, last) == progress - last >= 1
ShouldReportStrict(progress, last) == progress - last > 10

\* line 209
ShouldReport(progress, last) == progress - last >= 10

\* lines 203-215: write, then the progress accounting of file mode
WriteFrame ==
    /\ pc = "write"
    /\ \/ /\ exc' = "Exception"                    \* out.write raises
          /\ cause' = "write"
          /\ pc' = "except"
          /\ UNCHANGED <<written, last_written, frame_num, last_reported_progress, stdout>>
       \/ /\ written' = written + 1
          /\ last_written' = frame
          /\ pc' = "read"
          /\ UNCHANGED <<exc, cause>>
          /\ IF ~is_live_stream /\ frame_count > 0
             THEN /\ frame_num' = frame_num + 1
                  /\ LET progress == Progress(frame_num + 1, frame_count)
                     IN  IF ShouldReport(progress, last_reported_progress)
                         THEN /\ stdout' = Append(stdout,
                                              ProgressLine(progress, "Processing frame"))
                              /\ last_reported_progress' = progress
                         ELSE UNCHANGED <<stdout, last_reported_progress>>
             ELSE UNCHANGED <<frame_num, last_reported_progress, stdout>>
    /\ UNCHANGED <<call, argv1, input_source, is_live_stream, exit_status, yolo_model, cap,
                   cap_source, out, frame_count, output_video_path, frame, frame_as_read,
                   nread, failed_reads, detections_seen>>

RunFailure == ProgressLine(100, "An error occurred during processing")

\* lines 217-223: except Exception
HandleException ==
    /\ pc = "except"
    /\ stdout' = Append(stdout, RunFailure)
    /\ exc' = "none"
    /\ pc' = "finally"
    /\ UNCHANGED <<call, argv1, input_source, is_live_stream, exit_status, yolo_model, cap,
                   cap_source, out, frame_count, output_video_path, frame_num,
                   last_reported_progress, frame, frame_as_read, nread, failed_reads,
                   written, last_written, cause, detections_seen>>

FinallyKeepsSink ==
    /\ pc = "finally"
    /\ cap' = "released"
    /\ IF exc = "KeyboardInterrupt"
       THEN Exit(130)
       ELSE pc' = "terminal" /\ UNCHANGED exit_status
    /\ UNCHANGED <<call, argv1, input_source, is_live_stream, stdout, yolo_model, cap_source, out,
                   frame_count, output_video_path, frame_num, last_reported_progress,
                   frame, frame_as_read, nread, failed_reads, written, last_written, exc,
                   cause, detections_seen>>

\* lines 224-226: finally; a KeyboardInterrupt in flight then ends the process
Finally ==
    /\ pc = "finally"
    /\ cap' = "released"
    /\ out' = "released"
    /\ IF exc = "KeyboardInterrupt"
       THEN Exit(130)
       ELSE pc' = "terminal" /\ UNCHANGED exit_status
    /\ UNCHANGED <<call, argv1, input_source, is_live_stream, stdout, yolo_model, cap_source,
                   frame_count, output_video_path, frame_num, last_reported_progress,
                   frame, frame_as_read, nread, failed_reads, written, last_written, exc,
                   cause, detections_seen>>

\* lines 228-234
Terminal ==
    /\ pc = "terminal"
    /\ stdout' = Append(stdout, OutputLine(output_video_path))
    /\ Exit(0)
    /\ UNCHANGED <<call, argv1, input_source, is_live_stream, yolo_model, cap, cap_source, out,
                   frame_count, output_video_path, frame_num, last_reported_progress,
                   frame, frame_as_read, nread, failed_reads, written, last_written, exc,
                   cause, detections_seen>>

\* The process is interrupted from outside (SIGINT raises KeyboardInterrupt,
\* which except Exception does not catch): inside the try block the finally
\* clause runs, before it (lines 161-180) nothing does.
Interrupt ==
    /\ pc \in {"probe", "read", "predict", "write"}
    /\ cause' = "interrupt"
    /\ IF pc = "probe"
       THEN Exit(130) /\ UNCHANGED exc
       ELSE /\ exc' = "KeyboardInterrupt"
            /\ pc' = "finally"
            /\ UNCHANGED exit_status
    /\ UNCHANGED <<call, argv1, input_source, is_live_stream, stdout, yolo_model, cap, cap_source,
                   out, frame_count, output_video_path, frame_num, last_reported_progress,
                   frame, frame_as_read, nread, failed_reads, written, last_written,
                   detections_seen>>

Next ==
    \/ Transcode
    \/ LoadModel
    \/ OpenSource
    \/ ProbeSource
    \/ ReadFrame
    \/ Predict
    \/ WriteFrame
    \/ HandleException
    \/ Finally
    \/ Terminal
    \/ Interrupt

Spec == Init /\ [][Next]_vars

\* ================================================================ claims
IsLoopProgress(l) == l.message = "Processing frame"
LoopLines == SelectSeq(stdout, IsLoopProgress)

\* The progress values the frame loop has emitted, in order.
ProgressValues == [i \in 1..Len(LoopLines) |-> LoopLines[i].progress]

HasKey(l, k) == l.json /\ k \in l.keys
ProgressRecords == SelectSeq(stdout, LAMBDA l : HasKey(l, "progress"))
OutputRecords == SelectSeq(stdout, LAMBDA l : HasKey(l, "output_video"))
FailureLines == {TranscodeFailure, ModelFailure, OpenFailure, FrameError, RunFailure}
FailureRecords == SelectSeq(stdout, LAMBDA l : l \in FailureLines)

\* C1: in a file-mode run every progress value the frame loop emits is at
\* least 10 above the previously emitted one (0 before the first), so the
\* emitted values never decrease.
C1_ProgressSteps ==
    ~is_live_stream =>
        \A i \in 1..Len(ProgressValues) :
            /\ ProgressValues[i] - (IF i = 1 THEN 0 ELSE ProgressValues[i - 1]) >= 10
            /\ i > 1 => ProgressValues[i - 1] <= ProgressValues[i]

C1_Witness ==
    /\ ~is_live_stream
    /\ Len(ProgressValues) >= 3
    /\ ProgressValues[2] - ProgressValues[1] > 10
    /\ nread > frame_count

\* Scenario A: a file run that ended normally after the source delivered
\* exactly 100 frames, frame_count 100, no frame with a detection.
ScenarioA ==
    /\ pc = "exited"
    /\ cause = "none"
    /\ ~is_live_stream
    /\ frame_count = 100
    /\ nread = 100
    /\ ~detections_seen

\* C2 as stated: scenario A writes 100 frames and emits exactly the 9
\* progress records 10, 20, ..., 90, followed by one output_video record.
C2_Original ==
    ScenarioA =>
        /\ written = 100
        /\ Len(ProgressRecords) = 9
        /\ ProgressValues = [i \in 1..9 |-> 10 * i]
        /\ Len(OutputRecords) = 1
        /\ stdout[Len(stdout)] = OutputLine(output_video_path)

\* C2 (amended): scenario A writes 100 frames, all without a drawing, and
\* emits exactly the 10 progress records 10, 20, ..., 100 (the hundredth
\* frame reports 100), followed by one output_video record.
C2_ScenarioA ==
    ScenarioA =>
        /\ written = 100
        /\ last_written.drawn = <<>>
        /\ Len(ProgressRecords) = 10
        /\ ProgressValues = [i \in 1..10 |-> 10 * i]
        /\ \A i \in 1..10 : ProgressRecords[i] = LoopLines[i]
        /\ Len(OutputRecords) = 1
        /\ stdout[Len(stdout)] = OutputLine(output_video_path)

C2_Witness == ScenarioA /\ exit_status = 0

\* C3 as stated: when predictions raised on the frame of an iteration, the
\* frame written for that iteration equals the frame as it was read.
C3_FailedFrameWrittenAsRead ==
    (/\ written > 0
     /\ last_written.id = frame_as_read.id
     /\ PredictionsRaises(yolo_model, frame_as_read))
        => last_written = frame_as_read

\* C4: a frame on which predictions raises goes on to the write without a
\* record and without ending the process; its write adds that one frame to
\* the sink, emits no failure record and returns to the read; whenever the
\* loop is back at the read, every frame read so far was written once.
C4_FrameErrorRecovered ==
    /\ [][(pc = "predict" /\ PredictionsRaises(yolo_model, frame) /\ cause' = "none")
            => (/\ pc' = "write"
                /\ frame'.id = frame.id
                /\ stdout' = stdout
                /\ written' = written
                /\ exit_status' = -1)]_vars
    /\ [][(pc = "write" /\ PredictionsRaises(yolo_model, frame_as_read) /\ cause' = "none")
            => (/\ pc' = "read"
                /\ written' = written + 1
                /\ last_written'.id = frame_as_read.id
                /\ FailureRecords' = FailureRecords
                /\ exit_status' = -1)]_vars
    /\ []((pc = "read" /\ cause = "none") => (written = nread /\ FailureRecords = <<>>))

C4_Witness ==
    /\ pc = "predict"
    /\ nread = 2
    /\ written = 1
    /\ last_written.id = 1
    /\ PredictionsRaises(yolo_model, [last_written EXCEPT !.drawn = <<>>])
    /\ last_written.drawn # <<>>
    /\ FailureRecords = <<>>

\* C5 as stated: a run in which the frame write raised ends with one
\* progress=100 failure record, source and sink released, and a non-zero
\* exit status.
C5_WholeRunFailureExit ==
    (pc = "exited" /\ cause = "write") =>
        /\ Len(FailureRecords) = 1
        /\ FailureRecords[1].progress = 100
        /\ cap = "released"
        /\ out = "released"
        /\ exit_status # 0

\* C6: in a live run a failed read leaves the loop at the read, with
\* nothing written, nothing printed and the process running; a successful
\* read hands the frame to predictions; whenever the loop is back at the
\* read every frame read so far was written once and stdout is empty.
C6_LiveReadRetry ==
    /\ [][(is_live_stream /\ pc = "read" /\ nread' = nread /\ cause' = "none")
            => (/\ pc' = "read"
                /\ failed_reads' = failed_reads + 1
                /\ stdout' = stdout
                /\ written' = written
                /\ exit_status' = -1)]_vars
    /\ [][(is_live_stream /\ pc = "read" /\ nread' = nread + 1)
            => (pc' = "predict" /\ frame'.id = nread + 1 /\ stdout' = stdout)]_vars
    /\ []((is_live_stream /\ pc = "read" /\ cause = "none")
            => (written = nread /\ stdout = <<>> /\ exit_status = -1))

C6_Witness ==
    /\ is_live_stream
    /\ pc = "read"
    /\ failed_reads = 3
    /\ nread = 1
    /\ written = 1
    /\ last_written.id = 1
    /\ stdout = <<>>

\* C7: in a file run a failed read leaves the loop for the finally clause
\* without a record; from there on nothing is read or written; the
\* output_video record is printed at most once, and only with source and
\* sink released.
C7_FileDrain ==
    /\ [][(~is_live_stream /\ pc = "read" /\ nread' = nread /\ cause' = "none")
            => (/\ pc' = "finally"
                /\ stdout' = stdout
                /\ written' = written
                /\ exit_status' = -1)]_vars
    /\ [][(pc \in {"finally", "terminal", "exited"})
            => (nread' = nread /\ written' = written)]_vars
    /\ [][(pc = "finally" /\ cause = "none")
            => (pc' = "terminal" /\ stdout' = stdout)]_vars
    /\ [][(pc = "terminal")
            => (/\ pc' = "exited"
                /\ exit_status' = 0
                /\ stdout' = Append(stdout, OutputLine(output_video_path)))]_vars
    /\ [](/\ Len(OutputRecords) <= 1
          /\ (pc = "terminal" \/ Len(OutputRecords) = 1)
                => (cap = "released" /\ out = "released"))

C7_Witness ==
    /\ ~is_live_stream
    /\ pc = "exited"
    /\ cause = "none"
    /\ nread = 2
    /\ written = 2
    /\ Len(OutputRecords) = 1
    /\ cap = "released"
    /\ out = "released"

\* C8 as stated: a process that opened the source and has exited has
\* released the source and the sink.
C8_ReleasedOnEveryExit ==
    (pc = "exited" /\ cap \in {"open", "released"})
        => (cap = "released" /\ out = "released")

TranscodeSucceeded ==
    \E i \in 1..Len(stdout) : stdout[i] = MessageLine("Conversion completed successfully.")

\* C9: after a failed transcode, model load or source open the process has
\* exited with a non-zero status, stdout holds exactly one record with a
\* progress field, it is the last line and a progress=100 failure record,
\* no frame was read or written and no output_video record printed; for a
\* webm input the source is only ever opened after the conversion reported
\* success, and on the path the conversion wrote.
C9_SetupFailure ==
    /\ cause \in {"transcode", "model", "open"} =>
          /\ pc = "exited"
          /\ exit_status > 0
          /\ Len(ProgressRecords) = 1
          /\ ProgressRecords[1].progress = 100
          /\ ProgressRecords[1] \in FailureLines
          /\ stdout[Len(stdout)] = ProgressRecords[1]
          /\ nread = 0
          /\ written = 0
          /\ out = "none"
          /\ OutputRecords = <<>>
    /\ cause = "transcode" => cap = "none"
    /\ (get_format_by_extension(argv1) = Webm /\ cap # "none") =>
          /\ TranscodeSucceeded
          /\ cap_source = Replace(argv1, DotWebm, DotMp4)

C9_Witness ==
    /\ cause = "open"
    /\ get_format_by_extension(argv1) = Webm
    /\ cap_source # argv1
    /\ pc = "exited"

\* C10 as stated: every line on stdout is a json record holding progress
\* and message, or the output_video record alone.
C10_ProtocolShapes ==
    \A i \in 1..Len(stdout) :
        /\ stdout[i].json
        /\ stdout[i].keys \in {{"progress", "message"}, {"output_video"}}

\* C11 as stated: every progress value the frame loop emits in a file run
\* lies in 0..100.
C11_ProgressRange ==
    ~is_live_stream =>
        \A i \in 1..Len(ProgressValues) : ProgressValues[i] \in 0..100

\* C12: a read is issued only when every frame read before was written, and
\* it returns the next frame; a write adds exactly the frame that was read
\* last (the same frame, apart from what was drawn on it); so the frames in
\* the sink are the frames read, in order, each once.
C12_WriteOrder ==
    /\ [][(nread' # nread)
            => (written = nread /\ nread' = nread + 1 /\ frame'.id = nread')]_vars
    /\ [][(written' # written)
            => (/\ written' = written + 1
                /\ written' = nread
                /\ last_written' = [frame_as_read EXCEPT !.drawn = last_written'.drawn])]_vars
    /\ [](/\ written <= nread
          /\ nread <= written + 1
          /\ pc = "read" => written = nread)

C12_Witness ==
    /\ pc = "read"
    /\ nread = 3
    /\ written = 3
    /\ last_written.id = 3
    /\ last_written.drawn # <<>>

Progress100Seen ==
    \E i \in 1..Len(stdout) : HasKey(stdout[i], "progress") /\ stdout[i].progress = 100

\* C13: in a live run the processed-frame counter stays 0, the frame loop
\* emits no progress record, and a record with progress 100 is on stdout
\* only once the loop has been left (finally clause or later).
C13_LiveNoProgress ==
    is_live_stream =>
        /\ frame_num = 0
        /\ last_reported_progress = 0
        /\ LoopLines = <<>>
        /\ ProgressRecords # <<>> => (Progress100Seen /\ pc \in {"finally", "terminal", "exited"})

C13_Witness ==
    /\ is_live_stream
    /\ pc = "finally"
    /\ nread = 2
    /\ written = 1
    /\ frame_count = -1
    /\ ProgressRecords = <<RunFailure>>

\* C18 as stated: no run prints both a failure record and the output_video
\* record, and a finished run has exit status 0 exactly when it printed the
\* output_video record and no failure record.
C18_OneTerminalRecord ==
    /\ ~(FailureRecords # <<>> /\ OutputRecords # <<>>)
    /\ pc = "exited" =>
          (exit_status = 0 <=> (OutputRecords # <<>> /\ FailureRecords = <<>>))

\* C19 as stated: in a file run, whenever the loop is back at the read, with
\* frame_count > 0 the counter equals the frames written and the last
\* reported progress p has 0 <= floor(counter * 100 / frame_count) - p < 10;
\* with frame_count <= 0 the counter is 0 and no progress record was emitted.
C19_ProgressLag ==
    (~is_live_stream /\ pc = "read") =>
        IF frame_count > 0
        THEN /\ frame_num = written
             /\ 0 <= ((frame_num * 100) \div frame_count) - last_reported_progress
             /\ ((frame_num * 100) \div frame_count) - last_reported_progress < 10
        ELSE frame_num = 0 /\ LoopLines = <<>>

\* ------------------------------------------------- naming the output file
\* The script up to the creation of the sink, started on any short path.
MaxPathLen == 4

PathChars == {"a", "m", ".", "/"}

RECURSIVE StringsUpTo(_)
StringsUpTo(n) ==
    IF n = 0 THEN {<<>>}
    ELSE LET shorter == StringsUpTo(n - 1)
         IN  shorter \cup {Append(p, c) : p \in {q \in shorter : Len(q) = n - 1}, c \in PathChars}

\* Paths that can name a file, and two spellings of the live keyword.
PathInputs ==
    {p \in StringsUpTo(MaxPathLen) : Basename(p) \notin {<<>>, <<".">>, <<".", ".">>}}
    \cup {LivePath, <<"L", "i", "v", "e">>}

PathInit ==
    /\ pc = "start"
    /\ argv1 \in PathInputs
    /\ input_source = argv1
    /\ is_live_stream = (Lower(argv1) = LivePath)
    /\ stdout = <<>>
    /\ exit_status = -1
    /\ yolo_model = NoModel
    /\ cap = "none"
    /\ cap_source = <<>>
    /\ out = "none"
    /\ frame_count = 0
    /\ output_video_path = <<>>
    /\ frame_num = 0
    /\ last_reported_progress = 0
    /\ frame = NoFrame
    /\ frame_as_read = NoFrame
    /\ nread = 0
    /\ failed_reads = 0
    /\ written = 0
    /\ last_written = NoFrame
    /\ exc = "none"
    /\ cause = "none"
    /\ detections_seen = FALSE
    /\ call = NoCall

PathNext ==
    \/ Transcode
    \/ LoadModel
    \/ OpenSource
    \/ ProbeSource

SpecPath == PathInit /\ [][PathNext]_vars

\* <stem> and <ext> of the input's basename
InputExt == SplitextExt(Basename(input_source))
InputStem == SubSeq(Basename(input_source), 1, Len(Basename(input_source)) - Len(InputExt))

\* C17 as stated: once the sink is named, a file input with basename
\* <stem><ext> has the output path videos/<stem>-output<ext>, and every live
\* run has the same output path.
C17_OutputName ==
    out = "open" =>
        IF is_live_stream
        THEN output_video_path = OutputVideoPath(LivePath)
        ELSE output_video_path = PathJoin(OutputDir, InputStem \o OutputSuffix \o InputExt)

\* ------------------------------------------------------ a YOLO_Pred session
\* One YOLO_Pred object after construction, and any sequence of calls of
\* its three methods on one image.
MaxRows == 2

\* an argument left at its default None, or given
None == [given |-> FALSE, value |-> 0]
Some(v) == [given |-> TRUE, value |-> v]

\* update_thresholds with both assignments made whatever was passed
update_thresholds_unconditional(self, conf_thresh, class_thresh) ==
    [self EXCEPT !.conf_thresh = conf_thresh.value, !.class_thresh = class_thresh.value]

update_thresholds(self, conf_thresh, class_thresh) ==
    [self EXCEPT !.conf_thresh = IF conf_thresh.given THEN conf_thresh.value ELSE @,
                 !.class_thresh = IF class_thresh.given THEN class_thresh.value ELSE @]

generate_colors(self, ID) == self.colors[ID + 1]

\* Rows at and around both thresholds, before and after an update, over
\* three boxes: B overlaps A with IoU 0.45, C overlaps A with IoU 0.7.
SessionRows ==
    { Row(g[1], g[2], 58, 34, conf, scores) :
        g \in {<<129, 117>>, <<151, 117>>, <<129, 123>>},
        conf \in {40, 60, 90},
        scores \in {<<25, 10, 5>>, <<10, 5, 60>>} }

RECURSIVE TensorsUpTo(_)
TensorsUpTo(n) ==
    IF n = 0 THEN {<<>>}
    ELSE LET shorter == TensorsUpTo(n - 1)
         IN  shorter \cup {Append(t, r) : t \in {q \in shorter : Len(q) = n - 1},
                                          r \in SessionRows}

SessionImages ==
    { [id |-> 1, shape |-> FrameShape, tensor |-> t, forward_ok |-> TRUE, drawn |-> <<>>] :
        t \in TensorsUpTo(MaxRows) }

SessionInit ==
    /\ pc = "session"
    /\ yolo_model \in {YOLO_Init(yaml) : yaml \in Yamls}
    /\ frame \in SessionImages
    /\ call = NoCall
    /\ argv1 = <<>>
    /\ input_source = <<>>
    /\ is_live_stream = FALSE
    /\ stdout = <<>>
    /\ exit_status = -1
    /\ cap = "none"
    /\ cap_source = <<>>
    /\ out = "none"
    /\ frame_count = 0
    /\ output_video_path = <<>>
    /\ frame_num = 0
    /\ last_reported_progress = 0
    /\ frame_as_read = NoFrame
    /\ nread = 0
    /\ failed_reads = 0
    /\ written = 0
    /\ last_written = NoFrame
    /\ exc = "none"
    /\ cause = "none"
    /\ detections_seen = FALSE

ThresholdArgs(v) == {None, Some(v)}

CallUpdateThresholds ==
    /\ pc = "session"
    /\ \E conf_thresh \in ThresholdArgs(60), class_thresh \in ThresholdArgs(60) :
          /\ yolo_model' = update_thresholds(yolo_model, conf_thresh, class_thresh)
          /\ call' = [op |-> "update_thresholds", conf_thresh |-> conf_thresh,
                      class_thresh |-> class_thresh]
    /\ UNCHANGED <<pc, argv1, input_source, is_live_stream, stdout, exit_status, cap,
                   cap_source, out, frame_count, output_video_path, frame_num,
                   last_reported_progress, frame, frame_as_read, nread, failed_reads,
                   written, last_written, exc, cause, detections_seen>>

\* predictions on a fresh copy of the session's image; the call record keeps
\* the locals boxes / confidences / classes and index of the try block
CallPredictions ==
    /\ pc = "session"
    /\ LET bs == Decode(yolo_model, frame.tensor, MaxRC(frame))
       IN  call' = [op      |-> "predictions",
                    decoded |-> bs,
                    index   |-> IF bs.err THEN <<>>
                                ELSE NMSBoxes(bs.boxes, bs.confidences),
                    result  |-> predictions(yolo_model, frame)]
    /\ UNCHANGED <<pc, yolo_model, argv1, input_source, is_live_stream, stdout, exit_status,
                   cap, cap_source, out, frame_count, output_video_path, frame_num,
                   last_reported_progress, frame, frame_as_read, nread, failed_reads,
                   written, last_written, exc, cause, detections_seen>>

CallGenerateColors ==
    /\ pc = "session"
    /\ \E ID \in 0..(Len(yolo_model.colors) - 1) :
          call' = [op |-> "generate_colors", ID |-> ID,
                   result |-> generate_colors(yolo_model, ID)]
    /\ UNCHANGED <<pc, yolo_model, argv1, input_source, is_live_stream, stdout, exit_status,
                   cap, cap_source, out, frame_count, output_video_path, frame_num,
                   last_reported_progress, frame, frame_as_read, nread, failed_reads,
                   written, last_written, exc, cause, detections_seen>>

SessionNext ==
    \/ CallUpdateThresholds
    \/ CallPredictions
    \/ CallGenerateColors

SpecSession == SessionInit /\ [][SessionNext]_vars

\* ---- claims about the session
\* The two gates, read off the tensor row
Qualifies(self, row) ==
    /\ row.conf > self.conf_thresh
    /\ \E s \in 1..Len(row.scores) : row.scores[s] > self.class_thresh

\* the tensor rows that pass both gates, in tensor order
QualifyingIdx(self, t) ==
    SelectSeq([i \in 1..Len(t) |-> i], LAMBDA i : Qualifies(self, t[i]))

\* C14: under the thresholds in force at the call, every decoded entry comes
\* from a row whose objectness is strictly above the confidence threshold
\* and whose best class score is strictly above the class threshold, and
\* there are no more decoded entries than such rows.
C14_Gates ==
    (call.op = "predictions" /\ ~call.decoded.err) =>
        LET t == frame.tensor
            d == call.decoded
        IN  /\ Len(d.boxes) <= Cardinality({i \in 1..Len(t) : Qualifies(yolo_model, t[i])})
            /\ \A k \in 1..Len(d.boxes) :
                  \E i \in 1..Len(t) :
                     /\ Qualifies(yolo_model, t[i])
                     /\ d.boxes[k] = RowBox(t[i], MaxRC(frame))
                     /\ d.confidences[k] = t[i].conf

\* after update_thresholds(conf_thresh=0.6): a row with objectness 0.6 and
\* class score 0.6, and a row with objectness 0.9 and best class score 0.25,
\* both left out
C14_Witness ==
    /\ call.op = "predictions"
    /\ yolo_model.conf_thresh = 60
    /\ yolo_model.class_thresh = 25
    /\ frame.tensor = <<Row(129, 117, 58, 34, 60, <<10, 5, 60>>),
                        Row(151, 117, 58, 34, 90, <<25, 10, 5>>)>>
    /\ call.decoded.boxes = <<>>
\* the class a row is decoded to: the first position of its best score
RowClass(row) ==
    CHOOSE c \in 0..(Len(row.scores) - 1) :
        /\ \A s \in 1..Len(row.scores) : row.scores[s] <= row.scores[c + 1]
        /\ \A s \in 1..c : row.scores[s] < row.scores[c + 1]

\* C15: boxes, confidences and class ids have one length, entry k of each
\* comes from the k-th qualifying row of the tensor, every index suppression
\* returns is a position in them, and what is drawn for a surviving index
\* is the box, confidence, label and color of that one row.
C15_Aligned ==
    (call.op = "predictions" /\ ~call.decoded.err) =>
        LET t == frame.tensor
            d == call.decoded
            q == QualifyingIdx(yolo_model, t)
            drawn == call.result.drawn
        IN  /\ Len(d.boxes) = Len(q)
            /\ Len(d.confidences) = Len(q)
            /\ Len(d.classes) = Len(q)
            /\ \A k \in 1..Len(q) :
                  /\ d.boxes[k] = RowBox(t[q[k]], MaxRC(frame))
                  /\ d.confidences[k] = t[q[k]].conf
                  /\ d.classes[k] = RowClass(t[q[k]])
            /\ \A j \in 1..Len(call.index) : call.index[j] \in 1..Len(q)
            /\ Len(drawn) <= Len(call.index)
            /\ \A j \in 1..Len(drawn) :
                  LET row == t[q[call.index[j]]]
                  IN  /\ drawn[j].box = RowBox(row, MaxRC(frame))
                      /\ drawn[j].text = <<yolo_model.labels[RowClass(row) + 1], row.conf>>
                      /\ drawn[j].color = yolo_model.colors[RowClass(row) + 1]

\* a row that passes the objectness gate only, then a row that passes both:
\* the one surviving index is drawn with the second row's confidence
C15_Witness ==
    /\ call.op = "predictions"
    /\ yolo_model.conf_thresh = 40
    /\ yolo_model.class_thresh = 25
    /\ frame.tensor = <<Row(129, 117, 58, 34, 90, <<25, 10, 5>>),
                        Row(151, 117, 58, 34, 60, <<10, 5, 60>>)>>
    /\ call.index = <<1>>
    /\ Len(call.result.drawn) = 1
    /\ call.result.drawn[1].text[2] = 60
\* intersection over union of two boxes compared with pct percent
IoUAbove(a, b, pct) ==
    InterArea(a, b) * 100 > pct * (Area(a) + Area(b) - InterArea(a, b))

IoUIs(a, b, pct) ==
    InterArea(a, b) * 100 = pct * (Area(a) + Area(b) - InterArea(a, b))

\* scenario B: two decoded boxes with confidences 0.9 and 0.6 and IoU 0.7
\* yield only the 0.9 box
ScenarioB ==
    LET d == call.decoded
    IN  (/\ Len(d.boxes) = 2
         /\ IoUIs(d.boxes[1], d.boxes[2], 70)
         /\ \E i \in 1..2 : d.confidences[i] = 90 /\ d.confidences[3 - i] = 60)
        => \E i \in 1..2 : d.confidences[i] = 90 /\ call.index = <<i>>

C20_SessionFrame ==
    /\ [][/\ yolo_model'.labels = yolo_model.labels
          /\ yolo_model'.nc = yolo_model.nc
          /\ yolo_model'.colors = yolo_model.colors
          /\ IF call'.op = "update_thresholds"
             THEN /\ yolo_model'.conf_thresh =
                        IF call'.conf_thresh = None THEN yolo_model.conf_thresh
                        ELSE call'.conf_thresh.value
                  /\ yolo_model'.class_thresh =
                        IF call'.class_thresh = None THEN yolo_model.class_thresh
                        ELSE call'.class_thresh.value
             ELSE /\ yolo_model'.conf_thresh = yolo_model.conf_thresh
                  /\ yolo_model'.class_thresh = yolo_model.class_thresh]_vars
    /\ [](/\ yolo_model.colors = Palette(yolo_model.nc)
          /\ call.op = "generate_colors" =>
                call.result = Palette(yolo_model.nc)[call.ID + 1])

\* generate_colors(2) after an update that passed only class_thresh
C20_Witness ==
    /\ call.op = "generate_colors"
    /\ call.ID = 2
    /\ call.result = Palette(3)[3]
    /\ yolo_model.conf_thresh = 40
    /\ yolo_model.class_thresh = 60

====
